---- MODULE Spec2Model ----
(***************************************************************************)
(* The three demonstration notebooks of the repository, each modelled as   *)
(* the linear run of its code cells:                                       *)
(*   "es"    src/examples/elastic-search/load-into-es.ipynb                *)
(*   "mysql" src/unnamed/part_000   (Loading Data into MySQL)              *)
(*   "sec"   src/unnamed/part_001   (SEC Sentiment Analysis)               *)
(* A behaviour runs one notebook.  External calls (partition, the search   *)
(* client, the SQL bridge, HTTP, the trainer) are issued and then return   *)
(* or raise; an uncaught exception aborts the cell and the run.            *)
(* Strings are TLA+ strings; scores are integers (see Round4).             *)
(***************************************************************************)
EXTENDS Integers, Sequences, FiniteSets, TLC

\* ---------------------------------------------------------------- bounds
\* Largest number of elements the partitioner returns for the html file.
MaxElems == 5
\* Largest number of elements the partitioner returns for one of the
\* documents of the MySQL notebook.
MaxDocElems == 2
\* Number of ticker symbols of the list that are processed.
NumTickers == 2
\* Largest number of paragraphs in one risk-factors section.
MaxSections == 6
\* How often the user executes a load cell again after its first run.
MaxReruns == 1

\* ------------------------------------------------------- generic helpers
Min(a, b) == IF a < b THEN a ELSE b

Range(s) == { s[k] : k \in DOMAIN s }

\* All sequences over S of length 0..n.
SeqsUpTo(S, n) == UNION { [1..k -> S] : k \in 0..n }

\* Python: `sub in s` for strings.
StrContains(s, sub) ==
  \E k \in 0..(Len(s) - Len(sub)) : SubSeq(s, k + 1, k + Len(sub)) = sub

\* Python: d[key] = value on a dictionary (adds the key or overwrites it).
SetKey(d, key, value) ==
  [x \in (DOMAIN d) \cup {key} |-> IF x = key THEN value ELSE d[x]]

IsPrefix(s, t) == Len(s) <= Len(t) /\ SubSeq(t, 1, Len(s)) = s

\* ------------------------------------------------ the partitioning library
EsFilename == "../../example-docs/example-with-scripts.html"

\* The elements partition() may return for the html file.
EsElementKinds ==
  { [type |-> "NarrativeText", text |-> "great  news"],
    [type |-> "UncategorizedText", text |-> "awful\nloss"],
    [type |-> "NarrativeText", text |-> "barely  odd"],
    [type |-> "Title", text |-> "great  news"] }

\* ------------------------------------------------------ cleaning (library)
RECURSIVE ReplaceNewlines(_)
\* re.sub(r"[\xa0\n]", " ", text)
ReplaceNewlines(s) ==
  IF s = "" THEN ""
  ELSE (IF SubSeq(s, 1, 1) = "\n" THEN " " ELSE SubSeq(s, 1, 1))
         \o ReplaceNewlines(SubSeq(s, 2, Len(s)))

RECURSIVE CollapseSpaces(_)
\* re.sub(r"([ ]{2,})", " ", text)
CollapseSpaces(s) ==
  IF Len(s) < 2 THEN s
  ELSE IF SubSeq(s, 1, 2) = "  " THEN CollapseSpaces(SubSeq(s, 2, Len(s)))
  ELSE SubSeq(s, 1, 1) \o CollapseSpaces(SubSeq(s, 2, Len(s)))

RECURSIVE Strip(_)
\* str.strip() for blanks
Strip(s) ==
  IF s = "" THEN ""
  ELSE IF SubSeq(s, 1, 1) = " " THEN Strip(SubSeq(s, 2, Len(s)))
  ELSE IF SubSeq(s, Len(s), Len(s)) = " " THEN Strip(SubSeq(s, 1, Len(s) - 1))
  ELSE s

clean_extra_whitespace(text) == Strip(CollapseSpaces(ReplaceNewlines(text)))


\* -------------------------------------------------- sentiment (library)
\* Word scores of the sentiment lexicon, in units of 10^-5.
Lexicon ==
  { [word |-> "great", polarity |-> 80000, subjectivity |-> 75000],
    [word |-> "awful", polarity |-> -100000, subjectivity |-> 100000],
    [word |-> "barely", polarity |-> 4, subjectivity |-> 10006] }

RECURSIVE SumOver(_, _)
SumOver(S, field) ==
  IF S = {} THEN 0
  ELSE LET x == CHOOSE y \in S : TRUE
       IN x[field] + SumOver(S \ {x}, field)

\* TextBlob(text).sentiment: the mean score of the lexicon words of the
\* text, 0.0 when it has none.  Units of 10^-5.
TextBlobSentiment(text) ==
  LET found == { l \in Lexicon : StrContains(text, l.word) }
      n == Cardinality(found)
  IN IF n = 0
     THEN [polarity |-> 0, subjectivity |-> 0]
     ELSE [polarity |-> SumOver(found, "polarity") \div n,
           subjectivity |-> SumOver(found, "subjectivity") \div n]

\* round(x, 4): from units of 10^-5 to units of 10^-4, ties to even.
Round4(raw) ==
  LET q == raw \div 10
      r == raw % 10
  IN IF r < 5 THEN q
     ELSE IF r > 5 THEN q + 1
     ELSE IF q % 2 = 0 THEN q ELSE q + 1

\* Variant: the first comparison written as <=.
SentimentLabelLe(polarity) ==
  IF polarity <= 0 THEN "negative"
  ELSE IF polarity = 0 THEN "neutral"
  ELSE "positive"

\* The if / elif / else of the upload cell.
SentimentLabel(polarity) ==
  IF polarity < 0 THEN "negative"
  ELSE IF polarity = 0 THEN "neutral"
  ELSE "positive"

\* Variant: the label is stored under the key "type".
WithSentimentAsType(element) ==
  LET element_blob == TextBlobSentiment(element["text"])
      p == Round4(element_blob.polarity)
      d1 == SetKey(element, "polarity", p)
      d2 == SetKey(d1, "subjectivity", Round4(element_blob.subjectivity))
      d3 == SetKey(d2, "sentiment", SentimentLabel(d2["polarity"]))
  IN SetKey(d3, "type", d3["sentiment"])

\* The three assignments of one iteration of the upload loop.
WithSentiment(element) ==
  LET element_blob == TextBlobSentiment(element["text"])
      p == Round4(element_blob.polarity)
      d1 == SetKey(element, "polarity", p)
      d2 == SetKey(d1, "subjectivity", Round4(element_blob.subjectivity))
  IN SetKey(d2, "sentiment", SentimentLabel(d2["polarity"]))

\* ------------------------------------------------- staging (library)
\* Element.to_dict()
to_dict(element) ==
  [element_id |-> "id:" \o element.text,
   coordinates |-> "None",
   text |-> element.text,
   type |-> element.type,
   metadata |-> [filename |-> EsFilename, page_number |-> 1]]

\* Variant: the filter keeps the narrative paragraphs only.
FilterNarrative(els) == SelectSeq(els, LAMBDA element : element.type = "NarrativeText")

\* [element for element in elements if "Text" in element.category]
FilterText(els) == SelectSeq(els, LAMBDA element : StrContains(element.type, "Text"))

\* ----------------------------------------------------- search and sort
\* Number of hits execute() returns when the search sets no size.
DefaultSize == 10

\* Search().query("match", sentiment=label).execute() against the index:
\* the first page of the matching documents.
EsSearch(index, label) ==
  LET hits == SelectSeq(index, LAMBDA d : d["sentiment"] = label)
  IN SubSeq(hits, 1, Min(DefaultSize, Len(hits)))

RemoveAt(s, k) == SubSeq(s, 1, k - 1) \o SubSeq(s, k + 1, Len(s))

RECURSIVE SortedDesc(_, _)
\* sorted(s, key=lambda d: d[field], reverse=True): stable, largest first.
SortedDesc(s, field) ==
  IF s = <<>> THEN <<>>
  ELSE LET top == CHOOSE k \in DOMAIN s :
                    /\ \A j \in DOMAIN s : s[j][field] <= s[k][field]
                    /\ \A j \in 1..(k - 1) : s[j][field] < s[k][field]
       IN <<s[top]>> \o SortedDesc(RemoveAt(s, top), field)

\* The two sorted() calls of the read-back cell, in the order of the code.
DoubleSort(resp) == SortedDesc(SortedDesc(resp, "polarity"), "subjectivity")

\* `if ix == 5: break`
TopN == 5


\* ================================================================ state
VARIABLES
  nb,          \* the notebook that is run
  pc,          \* the cell (or position within a cell) to execute next
  halted,      \* an uncaught exception has stopped the run
  raised,      \* what raised: the call or the exception of the cell itself
  inflight,    \* external calls issued and not yet returned
  attempts,    \* every external call issued so far, in order
  completed,   \* number of external calls that returned or raised
  log,         \* the stages entered so far, in order
  reruns,      \* how often a load cell has been executed again
  i,           \* position of the running for loop
  elements,
  text_elements,
  dicts,       \* the dictionary objects made by convert_to_dict, by reference
  text_elements_dict,        \* list of references into dicts
  clean_text_elements_dict,  \* list of references into dicts
  es_index,    \* documents of the index search-unstructured-elements
  response_pos,
  response,
  sorted_elements,
  printed,     \* what the top-5 loop has printed
  elements_df,
  processed_documents,  \* rows of the MySQL table of that name
  elements_read_df,
  files,       \* the files and directories of the working directory
  risk_factors,
  annotations,
  label_studio_data,
  training_data,
  datasets_data,
  trained,     \* trainer.train() has returned
  sec_sentiment_model,
  chunked_text,
  results

ctl == <<nb, pc, halted, raised, inflight, attempts, completed, log, reruns>>

esVars == <<text_elements, dicts, text_elements_dict, clean_text_elements_dict,
            es_index, response_pos, response, sorted_elements, printed>>

myVars == <<elements_df, processed_documents, elements_read_df>>

secVars == <<files, risk_factors, annotations, label_studio_data, training_data,
             datasets_data, trained, sec_sentiment_model, chunked_text, results>>

vars == <<ctl, i, elements, esVars, myVars, secVars>>

OnlyEs == nb = "es" /\ UNCHANGED <<myVars, secVars>>
OnlyMy == nb = "mysql" /\ UNCHANGED <<esVars, secVars>>
OnlySec == nb = "sec" /\ UNCHANGED <<esVars, myVars>>

\* ------------------------------------------------------------- stages
StageOf(p) ==
  CASE p \in {"es_partition"} -> "partition"
    [] p \in {"es_filter", "es_convert", "es_clean"} -> "convert"
    [] p \in {"es_client", "es_upload"} -> "load"
    [] p \in {"es_search_pos", "es_search_neg", "es_print"} -> "read-back"
    [] p \in {"my_partition", "my_show"} -> "partition"
    [] p \in {"my_convert"} -> "convert"
    [] p \in {"my_load"} -> "load"
    [] p \in {"my_read"} -> "read-back"
    [] p \in {"sec_mkdir", "sec_fetch"} -> "fetch"
    [] p \in {"sec_extract"} -> "extract"
    [] p \in {"sec_elements", "sec_pipeline", "sec_annotate"} -> "stage"
    [] p \in {"sec_labels", "sec_model", "sec_tokenizer", "sec_train"} -> "train"
    [] p \in {"sec_save"} -> "save"
    [] p \in {"sec_load", "sec_infer", "sec_chunk", "sec_results"} -> "infer"
    [] OTHER -> "end"

FirstCell(n) ==
  CASE n = "es" -> "es_partition"
    [] n = "mysql" -> "my_partition"
    [] n = "sec" -> "sec_mkdir"

\* The stages of each notebook in the order of its cells.
StageOrder(n) ==
  CASE n \in {"es", "mysql"} -> <<"partition", "convert", "load", "read-back">>
    [] n = "sec" -> <<"fetch", "extract", "stage", "train", "save", "infer">>

\* ------------------------------------------------- control of the run
\* The interpreter executes a statement only when no exception has stopped
\* the run and it is not blocked inside a call.
Running == ~halted /\ inflight = {}

Goto(next) ==
  /\ pc' = next
  /\ log' = IF StageOf(next) \in {StageOf(pc), "end"} THEN log
            ELSE Append(log, StageOf(next))

\* A statement that completes and moves on.
Step(next) ==
  /\ Running
  /\ Goto(next)
  /\ UNCHANGED <<nb, halted, raised, inflight, attempts, completed, reruns>>

\* A statement of the cell itself raises: the cell and the run stop there.
Fail(exc) ==
  /\ Running
  /\ halted' = TRUE
  /\ raised' = Append(raised, [what |-> exc, call |-> 0])
  /\ UNCHANGED <<nb, pc, inflight, attempts, completed, log, reruns>>

\* The call record with the ordinal of the call.
CallRec(c) == SetKey(c, "id", Len(attempts) + 1)

\* Variant: the call is issued without waiting for the one in flight.
CallAsync(c) ==
  /\ ~halted
  /\ inflight' = inflight \cup {CallRec(c)}
  /\ attempts' = Append(attempts, CallRec(c))
  /\ UNCHANGED <<nb, pc, halted, raised, completed, log, reruns>>

\* A synchronous call is issued: the interpreter blocks in it.
Call(c) ==
  /\ Running
  /\ inflight' = inflight \cup {CallRec(c)}
  /\ attempts' = Append(attempts, CallRec(c))
  /\ UNCHANGED <<nb, pc, halted, raised, completed, log, reruns>>

\* The call in flight returns normally and the cell continues to `next`.
Return(c, next) ==
  /\ ~halted
  /\ c \in inflight
  /\ inflight' = inflight \ {c}
  /\ completed' = completed + 1
  /\ Goto(next)
  /\ UNCHANGED <<nb, halted, raised, attempts, reruns>>

\* The call returns, and a later statement of the same cell raises.
ReturnThenFail(c, exc) ==
  /\ ~halted
  /\ c \in inflight
  /\ inflight' = inflight \ {c}
  /\ completed' = completed + 1
  /\ halted' = TRUE
  /\ raised' = Append(raised, [what |-> exc, call |-> 0])
  /\ UNCHANGED <<nb, pc, attempts, log, reruns>>

\* ========================================= the Elasticsearch notebook
\* elements = partition("../../example-docs/example-with-scripts.html")
EsPartitionCall ==
  /\ OnlyEs /\ pc = "es_partition"
  /\ Call([fn |-> "partition", filename |-> EsFilename])
  /\ UNCHANGED <<i, elements, esVars>>

\* ... and the prints of elements[0] that end the cell.
EsPartitionReturn ==
  /\ OnlyEs /\ pc = "es_partition"
  /\ \E c \in inflight, els \in SeqsUpTo(EsElementKinds, MaxElems) :
       /\ c.fn = "partition"
       /\ elements' = els
       /\ IF els = <<>> THEN ReturnThenFail(c, "IndexError")
          ELSE Return(c, "es_filter")
  /\ UNCHANGED <<i, esVars>>

\* text_elements = [...]; print(text_elements[0] ...)
EsFilter ==
  /\ OnlyEs /\ pc = "es_filter"
  /\ text_elements' = FilterText(elements)
  /\ IF text_elements' = <<>> THEN Fail("IndexError") ELSE Step("es_convert")
  /\ UNCHANGED <<i, elements, dicts, text_elements_dict,
                 clean_text_elements_dict, es_index, response_pos, response,
                 sorted_elements, printed>>

\* text_elements_dict = convert_to_dict(text_elements);
\* print(json.dumps(text_elements_dict[4]))
EsConvert ==
  /\ OnlyEs /\ pc = "es_convert"
  /\ dicts' = [k \in DOMAIN text_elements |-> to_dict(text_elements[k])]
  /\ text_elements_dict' = [k \in DOMAIN text_elements |-> k]
  /\ IF Len(text_elements) < 5 THEN Fail("IndexError") /\ UNCHANGED <<i, clean_text_elements_dict>>
     ELSE Step("es_clean") /\ i' = 1 /\ clean_text_elements_dict' = <<>>
  /\ UNCHANGED <<elements, text_elements, es_index, response_pos, response,
                 sorted_elements, printed>>

\* Variant: the loop appends a cleaned copy and leaves the original alone.
EsCleanStepCopy ==
  /\ OnlyEs /\ pc = "es_clean"
  /\ i <= Len(text_elements_dict)
  /\ LET element_dict == text_elements_dict[i]
         copy == SetKey(dicts[element_dict], "text",
                        clean_extra_whitespace(dicts[element_dict]["text"]))
     IN /\ dicts' = Append(dicts, copy)
        /\ clean_text_elements_dict' = Append(clean_text_elements_dict, Len(dicts) + 1)
  /\ i' = i + 1
  /\ Step("es_clean")
  /\ UNCHANGED <<elements, text_elements, text_elements_dict, es_index,
                 response_pos, response, sorted_elements, printed>>

\* One iteration of the cleaning loop.
EsCleanStep ==
  /\ OnlyEs /\ pc = "es_clean"
  /\ i <= Len(text_elements_dict)
  /\ LET element_dict == text_elements_dict[i]
     IN /\ dicts' = [dicts EXCEPT ![element_dict] =
                       SetKey(@, "text", clean_extra_whitespace(@["text"]))]
        /\ clean_text_elements_dict' = Append(clean_text_elements_dict, element_dict)
  /\ i' = i + 1
  /\ Step("es_clean")
  /\ UNCHANGED <<elements, text_elements, text_elements_dict, es_index,
                 response_pos, response, sorted_elements, printed>>

\* The cleaning loop ends; print(json.dumps(clean_text_elements_dict[4])).
EsCleanEnd ==
  /\ OnlyEs /\ pc = "es_clean"
  /\ i > Len(text_elements_dict)
  /\ IF Len(clean_text_elements_dict) < 5 THEN Fail("IndexError")
     ELSE Step("es_client")
  /\ UNCHANGED <<i, elements, esVars>>

\* config.read(...); es_client = Elasticsearch(...): no request is sent.
EsClient ==
  /\ OnlyEs /\ pc = "es_client"
  /\ Step("es_upload")
  /\ i' = 1
  /\ UNCHANGED <<elements, esVars>>

\* One iteration of the upload loop up to the call of es_client.index.
EsIndexCall ==
  /\ OnlyEs /\ pc = "es_upload"
  /\ i <= Len(clean_text_elements_dict)
  /\ LET element == clean_text_elements_dict[i]
     IN /\ dicts' = [dicts EXCEPT ![element] = WithSentiment(@)]
        /\ Call([fn |-> "es_client.index", document |-> dicts'[element]])
  /\ UNCHANGED <<i, elements, text_elements, text_elements_dict,
                 clean_text_elements_dict, es_index, response_pos, response,
                 sorted_elements, printed>>

\* index(..., id=document["element_id"]): the document replaces the one
\* stored under the same id, or is added.
IndexById(index, document) ==
  IF \E k \in DOMAIN index : index[k]["element_id"] = document["element_id"]
  THEN [k \in DOMAIN index |->
          IF index[k]["element_id"] = document["element_id"] THEN document
          ELSE index[k]]
  ELSE Append(index, document)

\* Variant: the document is indexed under its element_id.
EsIndexReturnById ==
  /\ OnlyEs /\ pc = "es_upload"
  /\ \E c \in inflight :
       /\ c.fn = "es_client.index"
       /\ es_index' = IndexById(es_index, c.document)
       /\ Return(c, "es_upload")
  /\ i' = i + 1
  /\ UNCHANGED <<elements, text_elements, dicts, text_elements_dict,
                 clean_text_elements_dict, response_pos, response,
                 sorted_elements, printed>>

\* Variant: the loop advances by two positions.
EsIndexReturnSkip ==
  /\ OnlyEs /\ pc = "es_upload"
  /\ \E c \in inflight :
       /\ c.fn = "es_client.index"
       /\ es_index' = Append(es_index, c.document)
       /\ Return(c, "es_upload")
  /\ i' = i + 2
  /\ UNCHANGED <<elements, text_elements, dicts, text_elements_dict,
                 clean_text_elements_dict, response_pos, response,
                 sorted_elements, printed>>

\* es_client.index returns: the document is in the index.
EsIndexReturn ==
  /\ OnlyEs /\ pc = "es_upload"
  /\ \E c \in inflight :
       /\ c.fn = "es_client.index"
       /\ es_index' = Append(es_index, c.document)
       /\ Return(c, "es_upload")
  /\ i' = i + 1
  /\ UNCHANGED <<elements, text_elements, dicts, text_elements_dict,
                 clean_text_elements_dict, response_pos, response,
                 sorted_elements, printed>>

\* The upload loop ends.
EsUploadEnd ==
  /\ OnlyEs /\ pc = "es_upload"
  /\ i > Len(clean_text_elements_dict)
  /\ Step("es_search_pos")
  /\ UNCHANGED <<i, elements, esVars>>

\* response_pos = list(s_pos.execute())
EsSearchPosCall ==
  /\ OnlyEs /\ pc = "es_search_pos"
  /\ Call([fn |-> "search", sentiment |-> "positive"])
  /\ UNCHANGED <<i, elements, esVars>>

EsSearchPosReturn ==
  /\ OnlyEs /\ pc = "es_search_pos"
  /\ \E c \in inflight :
       /\ c.fn = "search"
       /\ response_pos' = EsSearch(es_index, c.sentiment)
       /\ Return(c, "es_search_neg")
  /\ UNCHANGED <<i, elements, text_elements, dicts, text_elements_dict,
                 clean_text_elements_dict, es_index, response,
                 sorted_elements, printed>>

\* response = list(s.execute())
EsSearchNegCall ==
  /\ OnlyEs /\ pc = "es_search_neg"
  /\ Call([fn |-> "search", sentiment |-> "negative"])
  /\ UNCHANGED <<i, elements, esVars>>

\* ... response.extend(response_pos) and the two sorted() calls.
EsSearchNegReturn ==
  /\ OnlyEs /\ pc = "es_search_neg"
  /\ \E c \in inflight :
       /\ c.fn = "search"
       /\ response' = EsSearch(es_index, c.sentiment) \o response_pos
       /\ Return(c, "es_print")
  /\ sorted_elements' = DoubleSort(response')
  /\ i' = 1
  /\ UNCHANGED <<elements, text_elements, dicts, text_elements_dict,
                 clean_text_elements_dict, es_index, response_pos, printed>>

\* Variant: the loop without its break.
EsPrintStepNoBreak ==
  /\ OnlyEs /\ pc = "es_print"
  /\ i <= Len(sorted_elements)
  /\ printed' = Append(printed, [ix |-> i, hit |-> sorted_elements[i]])
  /\ Step("es_print") /\ i' = i + 1
  /\ UNCHANGED <<elements, text_elements, dicts, text_elements_dict,
                 clean_text_elements_dict, es_index, response_pos, response,
                 sorted_elements>>

\* One iteration of the print loop, with its break.
EsPrintStep ==
  /\ OnlyEs /\ pc = "es_print"
  /\ i <= Len(sorted_elements)
  /\ printed' = Append(printed, [ix |-> i, hit |-> sorted_elements[i]])
  /\ IF i = TopN THEN Step("es_done") /\ UNCHANGED i
     ELSE Step("es_print") /\ i' = i + 1
  /\ UNCHANGED <<elements, text_elements, dicts, text_elements_dict,
                 clean_text_elements_dict, es_index, response_pos, response,
                 sorted_elements>>

\* The print loop runs out of hits.
EsPrintEnd ==
  /\ OnlyEs /\ pc = "es_print"
  /\ i > Len(sorted_elements)
  /\ Step("es_done")
  /\ UNCHANGED <<i, elements, esVars>>

\* ================================================= the MySQL notebook
EXAMPLE_DOCS_FOLDER == "../../example-docs/"

documents_to_process ==
  <<"fake-email.eml", "fake.docx", "layout-parser-paper-fast.pdf">>

\* os.path.join(a, b) for a relative b.
OsPathJoin(a, b) ==
  IF a = "" \/ SubSeq(a, Len(a), Len(a)) = "/" THEN a \o b ELSE a \o "/" \o b

\* What partition(filename=...) may return for one document.
MyElementKinds ==
  { [type |-> "NarrativeText", text |-> "body"],
    [type |-> "Title", text |-> "head"] }

Tagged(els, filename) ==
  [k \in DOMAIN els |->
     [type |-> els[k].type, text |-> els[k].text,
      metadata |-> [filename |-> filename]]]

\* convert_to_dataframe(elements): one row per element, metadata flattened.
convert_to_dataframe(els) ==
  [k \in DOMAIN els |->
     [type |-> els[k].type,
      text |-> els[k].text,
      element_id |-> "id:" \o els[k].text,
      filename |-> els[k].metadata.filename]]

\* DataFrame.to_sql(name, con, if_exists=...) on an existing or absent table.
ToSql(tbl, df, if_exists) ==
  CASE if_exists = "replace" -> df
    [] if_exists = "append" -> tbl \o df

\* Variant: the load adds to the table.
LoadTableAppend(tbl, df) == ToSql(tbl, df, "append")

\* The load cell passes if_exists="replace".
LoadTable(tbl, df) == ToSql(tbl, df, "replace")

UpperCase == "ABCDEFGHIJKLMNOPQRSTUVWXYZ"
LowerCase == "abcdefghijklmnopqrstuvwxyz"

LowerChar(c) ==
  IF \E k \in 1..Len(UpperCase) : SubSeq(UpperCase, k, k) = c
  THEN LET k == CHOOSE j \in 1..Len(UpperCase) : SubSeq(UpperCase, j, j) = c
       IN SubSeq(LowerCase, k, k)
  ELSE c

RECURSIVE Lower(_)
Lower(s) ==
  IF s = "" THEN "" ELSE LowerChar(SubSeq(s, 1, 1)) \o Lower(SubSeq(s, 2, Len(s)))

\* MySQL compares strings with its default, case-insensitive collation.
SqlEq(a, b) == Lower(a) = Lower(b)

\* column LIKE '%sub%'
SqlLike(a, sub) == StrContains(Lower(a), Lower(sub))

\* Variant: the query without its filename condition.
ReadQueryAnyFile(tbl) == SelectSeq(tbl, LAMBDA row : SqlEq(row.type, "NarrativeText"))

\* SELECT * FROM processed_documents
\* WHERE type = "NarrativeText" AND filename LIKE '%fake-email.eml%'
ReadQuery(tbl) ==
  SelectSeq(tbl, LAMBDA row : /\ SqlEq(row.type, "NarrativeText")
                              /\ SqlLike(row.filename, "fake-email.eml"))

\* What the table may hold before the notebook runs.
InitialTables ==
  { <<>>,
    <<[type |-> "NarrativeText", text |-> "stale", element_id |-> "id:stale",
       filename |-> "../../example-docs/fake-email.eml"]>> }

\* One iteration of the partition loop up to the call.
MyPartitionCall ==
  /\ OnlyMy /\ pc = "my_partition"
  /\ i <= Len(documents_to_process)
  /\ Call([fn |-> "partition",
           filename |-> OsPathJoin(EXAMPLE_DOCS_FOLDER, documents_to_process[i])])
  /\ UNCHANGED <<i, elements, myVars>>

\* Variant: the output is assigned to elements, not appended to it.
MyPartitionReturnAssign ==
  /\ OnlyMy /\ pc = "my_partition"
  /\ \E c \in inflight, els \in SeqsUpTo(MyElementKinds, MaxDocElems) :
       /\ c.fn = "partition"
       /\ elements' = Tagged(els, c.filename)
       /\ Return(c, "my_partition")
  /\ i' = i + 1
  /\ UNCHANGED myVars

\* partition returns; elements.extend(...)
MyPartitionReturn ==
  /\ OnlyMy /\ pc = "my_partition"
  /\ \E c \in inflight, els \in SeqsUpTo(MyElementKinds, MaxDocElems) :
       /\ c.fn = "partition"
       /\ elements' = elements \o Tagged(els, c.filename)
       /\ Return(c, "my_partition")
  /\ i' = i + 1
  /\ UNCHANGED myVars

MyPartitionEnd ==
  /\ OnlyMy /\ pc = "my_partition"
  /\ i > Len(documents_to_process)
  /\ Step("my_show")
  /\ UNCHANGED <<i, elements, myVars>>

\* The cells elements[0].text and elements[0].metadata.to_dict().
MyShow ==
  /\ OnlyMy /\ pc = "my_show"
  /\ IF elements = <<>> THEN Fail("IndexError") ELSE Step("my_convert")
  /\ UNCHANGED <<i, elements, myVars>>

\* elements_df = convert_to_dataframe(elements); elements_df.head();
\* the settings cells and create_engine(...), which does not connect.
MyConvert ==
  /\ OnlyMy /\ pc = "my_convert"
  /\ elements_df' = convert_to_dataframe(elements)
  /\ Step("my_load")
  /\ UNCHANGED <<i, elements, processed_documents, elements_read_df>>

\* elements_df.to_sql(name=table_name, con=engine, if_exists="replace", ...)
MyLoadCall ==
  /\ OnlyMy /\ pc = "my_load"
  /\ Call([fn |-> "to_sql", rows |-> elements_df])
  /\ UNCHANGED <<i, elements, myVars>>

MyLoadReturn ==
  /\ OnlyMy /\ pc = "my_load"
  /\ \E c \in inflight :
       /\ c.fn = "to_sql"
       /\ processed_documents' = LoadTable(processed_documents, c.rows)
       /\ Return(c, "my_read")
  /\ UNCHANGED <<i, elements, elements_df, elements_read_df>>

\* pd.read_sql_query(sql=text(sql), con=conn)
MyReadCall ==
  /\ OnlyMy /\ pc = "my_read"
  /\ Call([fn |-> "read_sql_query"])
  /\ UNCHANGED <<i, elements, myVars>>

\* ... and elements_read_df.head()
MyReadReturn ==
  /\ OnlyMy /\ pc = "my_read"
  /\ \E c \in inflight :
       /\ c.fn = "read_sql_query"
       /\ elements_read_df' = ReadQuery(processed_documents)
       /\ Return(c, "my_done")
  /\ UNCHANGED <<i, elements, elements_df, processed_documents>>

\* =================================================== the SEC notebook
AllTickers ==
  <<"ehc", "mrk", "nke", "msex", "v", "cvs", "doc", "smtc", "cl", "ava", "bc",
    "f", "lmt", "cri", "aig", "rgld", "apld", "omcl", "mmm", "bgs", "dis",
    "wetg", "bj">>

tickers == SubSeq(AllTickers, 1, NumTickers)

\* os.getcwd(), written relative to itself.
cwd == "."

data_directory == OsPathJoin(cwd, "xbrl-forms")

\* Variant: the filing is written next to the directory, not into it.
FetchPathFlat(ticker) == OsPathJoin(cwd, ticker \o "-10k.xbrl")

\* os.path.join(data_directory, f"{ticker}-10k.xbrl")
FetchPath(ticker) == OsPathJoin(data_directory, ticker \o "-10k.xbrl")

\* f"./xbrl-forms/{ticker}-10k.xbrl"
ExtractPath(ticker) == "./xbrl-forms/" \o ticker \o "-10k.xbrl"

\* The text get_form_by_ticker returns for a ticker.
FormText(ticker) == "10-K of " \o ticker

\* The file a relative path names: "./name" and "name" are the same file of
\* the working directory.
NormPath(path) ==
  IF Len(path) >= 2 /\ SubSeq(path, 1, 2) = "./"
  THEN SubSeq(path, 3, Len(path))
  ELSE path

\* os.path.exists(name), on the files of the working directory.
Exists(name) == \E f \in files : NormPath(f.name) = NormPath(name)

\* open(name, "w") and write: the file holds the new content only.
WriteFile(fs, name, content) ==
  { f \in fs : NormPath(f.name) # NormPath(name) }
    \cup {[name |-> name, content |-> content]}

\* open(name, "r") / open(name, "rb") and read.
ReadFile(name) ==
  (CHOOSE f \in files : NormPath(f.name) = NormPath(name)).content

\* Variant: the staging step writes under the name the training cell reads.
StagedFileLabeled == "sec-sentiment-analysis-labeled.json"

StagedFile == "sec-sentiment-analysis.json"

LabeledFile == "sec-sentiment-analysis-labeled.json"

\* What the file of that name holds, "absent" when there is none.
ContentOf(name) == IF Exists(name) THEN ReadFile(name) ELSE "absent"

\* trainer.save_model("sec-sentiment-model")
ModelDir == "sec-sentiment-model"

\* pipeline(..., model="./sec-sentiment-model")
ModelPath == "./sec-sentiment-model"

\* What the working directory may hold before the run: nothing, or what an
\* earlier run in it has left: the xbrl-forms directory with an old filing,
\* the labelled data exported then and the model saved then.
InitialFiles ==
  { {},
    { [name |-> data_directory, content |-> "directory"],
      [name |-> FetchPath(tickers[1]), content |-> "10-K of last year"],
      [name |-> LabeledFile, content |-> "old export"],
      [name |-> ModelDir, content |-> "old model"] } }

\* The labelled data of the export an earlier run has left.
OldExport == <<[text |-> "old", sentiment |-> "Negative"]>>

Digits == "0123456789"

\* The paragraphs the section API returns for a filing, n of them.
Sections(ticker, n) ==
  [k \in 1..n |-> [type |-> "NarrativeText",
                   text |-> ticker \o ":" \o SubSeq(Digits, k + 1, k + 1)]]

\* risk_factors[ticker] = value on an insertion-ordered dict.
DictSet(d, key, value) ==
  IF \E k \in DOMAIN d : d[k].key = key
  THEN [k \in DOMAIN d |-> IF d[k].key = key THEN [key |-> key, value |-> value] ELSE d[k]]
  ELSE Append(d, [key |-> key, value |-> value])

RECURSIVE Flatten(_)
\* for sections in risk_factors.values(): elements.extend(isd_to_elements(sections))
Flatten(d) == IF d = <<>> THEN <<>> ELSE Head(d).value \o Flatten(Tail(d))

\* Label of the off-the-shelf sentiment model for a text.
PreLabel(text) ==
  IF SubSeq(text, Len(text), Len(text)) \in {"1", "3", "5", "7", "9"}
  THEN "NEGATIVE" ELSE "POSITIVE"

UpperChar(c) ==
  IF \E k \in 1..Len(LowerCase) : SubSeq(LowerCase, k, k) = c
  THEN LET k == CHOOSE j \in 1..Len(LowerCase) : SubSeq(LowerCase, j, j) = c
       IN SubSeq(UpperCase, k, k)
  ELSE c

\* str.title() of a single word.
TitleCase(s) ==
  IF s = "" THEN "" ELSE UpperChar(SubSeq(s, 1, 1)) \o Lower(SubSeq(s, 2, Len(s)))

\* One entry of annotations, as the annotation loop builds it.
Annotation(element) ==
  <<[result |-> <<[type |-> "choices",
                   value |-> [choices |-> <<TitleCase(PreLabel(element.text))>>],
                   from_name |-> "sentiment",
                   to_name |-> "text"]>>]>>

\* stage_for_label_studio(elements=..., annotations=...): one task per
\* element, with the annotations given for it.
stage_for_label_studio(els, anns) ==
  [k \in DOMAIN els |->
     [data |-> [text |-> els[k].text, ref_id |-> "id:" \o els[k].text],
      annotations |-> anns[k]]]

\* The sentiment values a LabelStudio export may carry for every item:
\* the pre-annotation is kept, or the annotator chose another label.
Relabels == {"keep", "Neutral"}

\* The labelled data exported for the uploaded tasks.
Exported(tasks, relabel) ==
  [k \in DOMAIN tasks |->
     [text |-> tasks[k].data.text,
      sentiment |-> IF relabel = "keep"
                    THEN tasks[k].annotations[1].result[1].value.choices[1]
                    ELSE relabel]]

\* Variant: the label is 1 for "Positive" and 0 for everything else.
FromDictPositive(data) ==
  [text |-> [k \in DOMAIN data |-> data[k].text],
   label |-> [k \in DOMAIN data |-> IF data[k].sentiment = "Positive" THEN 1 ELSE 0]]

\* Dataset.from_dict({"text": [...], "label": [...]})
FromDict(data) ==
  [text |-> [k \in DOMAIN data |-> data[k].text],
   label |-> [k \in DOMAIN data |-> IF data[k].sentiment = "Negative" THEN 0 ELSE 1]]

\* Variant: the whole list is staged.
AllOf(els) == els

\* elements[:10]
FirstTen(els) == SubSeq(els, 1, Min(10, Len(els)))

\* tokenizer.model_max_length: the attention window of the model, in tokens.
AttentionWindow == 18

\* len(tokenizer.tokenize(segment)): a token per character.
TokenCount(segment) == Len(segment)

\* The largest chunk, a buffer of two tokens being kept free.
MaxChunkSize == AttentionWindow - 2

RECURSIVE ChunkFrom(_, _, _, _, _)
\* The loop of chunk_by_attention_window over the segments from position k,
\* with the chunks closed so far and the chunk that is being filled.
ChunkFrom(segments, k, chunks, chunk_text, chunk_size) ==
  IF k > Len(segments) THEN chunks
  ELSE LET num_tokens == TokenCount(segments[k])
           full == chunk_size + num_tokens > MaxChunkSize
           closed == IF full THEN Append(chunks, chunk_text) ELSE chunks
           text0 == IF full THEN "" ELSE chunk_text
           size0 == IF full THEN 0 ELSE chunk_size
           text1 == (IF size0 > 0 THEN text0 \o " " ELSE text0) \o segments[k]
           size1 == size0 + num_tokens
       IN IF k = Len(segments) /\ Len(text1) > 0
          THEN Append(closed, text1)
          ELSE ChunkFrom(segments, k + 1, closed, text1, size1)

\* stage_for_transformers(elements, tokenizer): the texts of the elements,
\* joined and split again at the blank lines, are packed into chunks that
\* fit the attention window.
stage_for_transformers(els) ==
  ChunkFrom([k \in DOMAIN els |-> els[k].text], 1, <<>>, "", 0)

\* A paragraph alone exceeds the window: the chunking raises.
SegmentTooLong(els) ==
  \E k \in DOMAIN els : TokenCount(els[k].text) > MaxChunkSize

\* Label of the fine-tuned model for a text.
FineTunedLabel(text) == IF Len(text) % 2 = 0 THEN "LABEL_0" ELSE "LABEL_1"

\* if not os.path.exists(data_directory): os.mkdir(data_directory)
SecMkdir ==
  /\ OnlySec /\ pc = "sec_mkdir"
  /\ files' = IF Exists(data_directory) THEN files
              ELSE WriteFile(files, data_directory, "directory")
  /\ Step("sec_fetch")
  /\ i' = 1
  /\ UNCHANGED <<elements, risk_factors, annotations, training_data,
                 datasets_data, trained, sec_sentiment_model, results,
                 label_studio_data, chunked_text>>

\* One iteration of the fetch loop up to the call of get_form_by_ticker.
SecFetchCall ==
  /\ OnlySec /\ pc = "sec_fetch"
  /\ i <= Len(tickers)
  /\ Call([fn |-> "get_form_by_ticker", ticker |-> tickers[i]])
  /\ UNCHANGED <<i, elements, secVars>>

\* with open(filename, "w") as f: f.write(form_text)
SecFetchReturn ==
  /\ OnlySec /\ pc = "sec_fetch"
  /\ \E c \in inflight :
       /\ c.fn = "get_form_by_ticker"
       /\ files' = WriteFile(files, FetchPath(c.ticker), FormText(c.ticker))
       /\ Return(c, "sec_fetch")
  /\ i' = i + 1
  /\ UNCHANGED <<elements, risk_factors, annotations, training_data,
                 datasets_data, trained, sec_sentiment_model, results,
                 label_studio_data, chunked_text>>

\* The fetch loop ends; version = get_version(); risk_factors = dict()
SecFetchEnd ==
  /\ OnlySec /\ pc = "sec_fetch"
  /\ i > Len(tickers)
  /\ Step("sec_extract")
  /\ i' = 1
  /\ risk_factors' = <<>>
  /\ UNCHANGED <<elements, files, annotations, training_data,
                 datasets_data, trained, sec_sentiment_model, results,
                 label_studio_data, chunked_text>>

\* open(f"./xbrl-forms/{ticker}-10k.xbrl", "rb"); requests.post(...)
SecPostCall ==
  /\ OnlySec /\ pc = "sec_extract"
  /\ i <= Len(tickers)
  /\ IF Exists(ExtractPath(tickers[i]))
     THEN Call([fn |-> "requests.post", ticker |-> tickers[i],
                text_files |-> ReadFile(ExtractPath(tickers[i]))])
     ELSE Fail("FileNotFoundError")
  /\ UNCHANGED <<i, elements, secVars>>

\* Variant: the entry is stored before the status of the response is checked.
SecPostReturnStoreFirst ==
  /\ OnlySec /\ pc = "sec_extract"
  /\ \E c \in inflight, ok \in BOOLEAN, n \in 0..MaxSections :
       /\ c.fn = "requests.post"
       /\ IF ok
          THEN /\ risk_factors' = DictSet(risk_factors, c.ticker, Sections(c.ticker, n))
               /\ i' = i + 1
               /\ Return(c, "sec_extract")
          ELSE /\ n = 0
               /\ risk_factors' = DictSet(risk_factors, c.ticker, <<>>)
               /\ ReturnThenFail(c, "HTTPError")
               /\ UNCHANGED i
  /\ UNCHANGED <<elements, files, annotations, training_data,
                 datasets_data, trained, sec_sentiment_model, results,
                 label_studio_data, chunked_text>>

\* response.raise_for_status(); risk_factors[ticker] = ...; time.sleep(1)
SecPostReturn ==
  /\ OnlySec /\ pc = "sec_extract"
  /\ \E c \in inflight, ok \in BOOLEAN, n \in 0..MaxSections :
       /\ c.fn = "requests.post"
       /\ IF ok
          THEN /\ risk_factors' = DictSet(risk_factors, c.ticker, Sections(c.ticker, n))
               /\ i' = i + 1
               /\ Return(c, "sec_extract")
          ELSE /\ n = 0
               /\ ReturnThenFail(c, "HTTPError")
               /\ UNCHANGED <<risk_factors, i>>
  /\ UNCHANGED <<elements, files, annotations, training_data,
                 datasets_data, trained, sec_sentiment_model, results,
                 label_studio_data, chunked_text>>

SecExtractEnd ==
  /\ OnlySec /\ pc = "sec_extract"
  /\ i > Len(tickers)
  /\ Step("sec_elements")
  /\ UNCHANGED <<i, elements, secVars>>

\* elements = []; for sections in risk_factors.values(): elements.extend(...)
SecElements ==
  /\ OnlySec /\ pc = "sec_elements"
  /\ elements' = Flatten(risk_factors)
  /\ Step("sec_pipeline")
  /\ UNCHANGED <<i, secVars>>

\* sentiment_pipeline = pipeline(model=model): fetches the model.
SecPipelineCall ==
  /\ OnlySec /\ pc = "sec_pipeline"
  /\ Call([fn |-> "pipeline", model |-> "distilbert-base-uncased-finetuned-sst-2-english"])
  /\ UNCHANGED <<i, elements, secVars>>

\* ... annotations = []
SecPipelineReturn ==
  /\ OnlySec /\ pc = "sec_pipeline"
  /\ \E c \in inflight : c.fn = "pipeline" /\ Return(c, "sec_annotate")
  /\ i' = 1
  /\ annotations' = <<>>
  /\ UNCHANGED <<elements, files, risk_factors, training_data,
                 datasets_data, trained, sec_sentiment_model, results,
                 label_studio_data, chunked_text>>

\* Variant: elements the model finds positive get no annotation.
SecAnnotateStepNegative ==
  /\ OnlySec /\ pc = "sec_annotate"
  /\ i <= Len(elements)
  /\ annotations' = IF PreLabel(elements[i].text) = "NEGATIVE"
                    THEN Append(annotations, Annotation(elements[i]))
                    ELSE annotations
  /\ i' = i + 1
  /\ Step("sec_annotate")
  /\ UNCHANGED <<elements, files, risk_factors, training_data,
                 datasets_data, trained, sec_sentiment_model, results,
                 label_studio_data, chunked_text>>

\* One iteration of the annotation loop.
SecAnnotateStep ==
  /\ OnlySec /\ pc = "sec_annotate"
  /\ i <= Len(elements)
  /\ annotations' = Append(annotations, Annotation(elements[i]))
  /\ i' = i + 1
  /\ Step("sec_annotate")
  /\ UNCHANGED <<elements, files, risk_factors, training_data,
                 datasets_data, trained, sec_sentiment_model, results,
                 label_studio_data, chunked_text>>

\* The loop ends; stage_for_label_studio(...), which rejects lists of
\* different lengths; json.dump(...) to the file.
SecAnnotateEnd ==
  /\ OnlySec /\ pc = "sec_annotate"
  /\ i > Len(elements)
  /\ IF Len(annotations) # Len(elements)
     THEN Fail("ValueError") /\ UNCHANGED <<files, label_studio_data, chunked_text>>
     ELSE /\ label_studio_data' = stage_for_label_studio(elements, annotations)
          /\ files' = WriteFile(files, StagedFile, "staged")
          /\ Step("sec_labels")
  /\ UNCHANGED <<i, elements, risk_factors, annotations, training_data,
                 datasets_data, trained, sec_sentiment_model, chunked_text,
                 results>>

\* The annotator exports the labelled data from LabelStudio (outside the
\* notebook, while it waits before the training cells).
Export ==
  /\ OnlySec /\ pc = "sec_labels"
  /\ Running
  /\ ContentOf(LabeledFile) # "export"
  /\ files' = WriteFile(files, LabeledFile, "export")
  /\ UNCHANGED <<ctl, i, elements, risk_factors, annotations, training_data,
                 datasets_data, trained, sec_sentiment_model, results,
                 label_studio_data, chunked_text>>

\* training_data = json.load(f); datasets_data = Dataset.from_dict(...)
SecLabels ==
  /\ OnlySec /\ pc = "sec_labels"
  /\ IF Exists(LabeledFile)
     THEN /\ IF ReadFile(LabeledFile) = "old export"
             THEN training_data' = OldExport
             ELSE \E relabel \in Relabels :
                    training_data' = Exported(label_studio_data, relabel)
          /\ datasets_data' = FromDict(training_data')
          /\ Step("sec_model")
     ELSE /\ Fail("FileNotFoundError")
          /\ UNCHANGED <<training_data, datasets_data>>
  /\ UNCHANGED <<i, elements, files, risk_factors, annotations,
                 trained, sec_sentiment_model, results,
                 label_studio_data, chunked_text>>

\* AutoModelForSequenceClassification.from_pretrained(model_name, num_labels=2)
SecModelCall ==
  /\ OnlySec /\ pc = "sec_model"
  /\ Call([fn |-> "from_pretrained", what |-> "model", num_labels |-> 2])
  /\ UNCHANGED <<i, elements, secVars>>

SecModelReturn ==
  /\ OnlySec /\ pc = "sec_model"
  /\ \E c \in inflight : c.fn = "from_pretrained" /\ Return(c, "sec_tokenizer")
  /\ UNCHANGED <<i, elements, secVars>>

\* AutoTokenizer.from_pretrained(model_name)
SecTokenizerCall ==
  /\ OnlySec /\ pc = "sec_tokenizer"
  /\ Call([fn |-> "from_pretrained", what |-> "tokenizer"])
  /\ UNCHANGED <<i, elements, secVars>>

\* ... datasets_data.map(...), DataCollatorWithPadding(...), Trainer(...)
SecTokenizerReturn ==
  /\ OnlySec /\ pc = "sec_tokenizer"
  /\ \E c \in inflight : c.fn = "from_pretrained" /\ Return(c, "sec_train")
  /\ UNCHANGED <<i, elements, secVars>>

\* trainer.train()
SecTrainCall ==
  /\ OnlySec /\ pc = "sec_train"
  /\ Call([fn |-> "trainer.train"])
  /\ UNCHANGED <<i, elements, secVars>>

\* Variant: the run goes from training straight to loading the model.
SecTrainReturnNoSave ==
  /\ OnlySec /\ pc = "sec_train"
  /\ \E c \in inflight : c.fn = "trainer.train" /\ Return(c, "sec_load")
  /\ trained' = TRUE
  /\ UNCHANGED <<i, elements, files, risk_factors, annotations, training_data,
                 datasets_data, sec_sentiment_model, results,
                 label_studio_data, chunked_text>>

SecTrainReturn ==
  /\ OnlySec /\ pc = "sec_train"
  /\ \E c \in inflight : c.fn = "trainer.train" /\ Return(c, "sec_save")
  /\ trained' = TRUE
  /\ UNCHANGED <<i, elements, files, risk_factors, annotations, training_data,
                 datasets_data, sec_sentiment_model, results,
                 label_studio_data, chunked_text>>

\* Variant: the model is saved under another name than the one loaded.
SecSaveOther ==
  /\ OnlySec /\ pc = "sec_save"
  /\ files' = WriteFile(files, "sentiment-model", "model")
  /\ Step("sec_load")
  /\ UNCHANGED <<i, elements, risk_factors, annotations, training_data,
                 datasets_data, trained, sec_sentiment_model, results,
                 label_studio_data, chunked_text>>

\* trainer.save_model("sec-sentiment-model")
SecSave ==
  /\ OnlySec /\ pc = "sec_save"
  /\ files' = WriteFile(files, ModelDir, "model")
  /\ Step("sec_load")
  /\ UNCHANGED <<i, elements, risk_factors, annotations, training_data,
                 datasets_data, trained, sec_sentiment_model, results,
                 label_studio_data, chunked_text>>

\* sec_sentiment_model = pipeline(task=..., model="./sec-sentiment-model")
SecLoad ==
  /\ OnlySec /\ pc = "sec_load"
  /\ IF Exists(ModelPath)
     THEN sec_sentiment_model' = ReadFile(ModelPath) /\ Step("sec_infer")
     ELSE Fail("OSError") /\ UNCHANGED sec_sentiment_model
  /\ UNCHANGED <<i, elements, files, risk_factors, annotations, training_data,
                 datasets_data, trained, results, label_studio_data, chunked_text>>

\* elements[0].text; sec_sentiment_model(elements[0].text)
SecInfer ==
  /\ OnlySec /\ pc = "sec_infer"
  /\ IF elements = <<>> THEN Fail("IndexError") ELSE Step("sec_chunk")
  /\ UNCHANGED <<i, elements, secVars>>

\* chunked_text = stage_for_transformers(elements[:10], tokenizer)
SecChunk ==
  /\ OnlySec /\ pc = "sec_chunk"
  /\ IF SegmentTooLong(FirstTen(elements))
     THEN Fail("ValueError") /\ UNCHANGED chunked_text
     ELSE /\ chunked_text' = stage_for_transformers(FirstTen(elements))
          /\ Step("sec_results")
  /\ UNCHANGED <<i, elements, files, risk_factors, annotations, training_data,
                 datasets_data, trained, sec_sentiment_model, results,
                 label_studio_data>>

\* results = sec_sentiment_model(chunked_text): one output per input text.
SecResults ==
  /\ OnlySec /\ pc = "sec_results"
  /\ results' = [k \in DOMAIN chunked_text |->
                   [label |-> FineTunedLabel(chunked_text[k])]]
  /\ Step("sec_done")
  /\ UNCHANGED <<i, elements, files, risk_factors, annotations, training_data,
                 datasets_data, trained, sec_sentiment_model,
                 label_studio_data, chunked_text>>

\* =============================================================== errors
\* Variant: the documents written so far are removed when a call raises.
RaiseRollback ==
  /\ ~halted
  /\ \E c \in inflight :
       /\ inflight' = inflight \ {c}
       /\ raised' = Append(raised, [what |-> c.fn, call |-> c.id])
  /\ completed' = completed + 1
  /\ halted' = TRUE
  /\ es_index' = <<>>
  /\ UNCHANGED <<nb, pc, attempts, log, reruns, i, elements, myVars, secVars>>
  /\ UNCHANGED <<text_elements, dicts, text_elements_dict,
                 clean_text_elements_dict, response_pos, response,
                 sorted_elements, printed>>

\* Variant: the exception is caught and the cell carries on.
RaiseSwallowed ==
  /\ ~halted
  /\ \E c \in inflight :
       /\ inflight' = inflight \ {c}
       /\ raised' = Append(raised, [what |-> c.fn, call |-> c.id])
  /\ completed' = completed + 1
  /\ UNCHANGED <<nb, pc, halted, attempts, log, reruns, i, elements, esVars, myVars, secVars>>

\* The call in flight raises; nothing catches it.
Raise ==
  /\ ~halted
  /\ \E c \in inflight :
       /\ inflight' = inflight \ {c}
       /\ raised' = Append(raised, [what |-> c.fn, call |-> c.id])
  /\ completed' = completed + 1
  /\ halted' = TRUE
  /\ UNCHANGED <<nb, pc, attempts, log, reruns, i, elements, esVars, myVars, secVars>>

\* ================================================================= spec
Notebooks == {"es", "mysql", "sec"}

Init ==
  /\ nb \in Notebooks
  /\ pc = FirstCell(nb)
  /\ halted = FALSE
  /\ raised = <<>>
  /\ inflight = {}
  /\ attempts = <<>>
  /\ completed = 0
  /\ log = <<StageOf(pc)>>
  /\ reruns = 0
  /\ i = 1
  /\ elements = <<>>
  /\ text_elements = <<>>
  /\ dicts = <<>>
  /\ text_elements_dict = <<>>
  /\ clean_text_elements_dict = <<>>
  /\ es_index = <<>>
  /\ response_pos = <<>>
  /\ response = <<>>
  /\ sorted_elements = <<>>
  /\ printed = <<>>
  /\ elements_df = <<>>
  /\ processed_documents \in (IF nb = "mysql" THEN InitialTables ELSE {<<>>})
  /\ elements_read_df = <<>>
  /\ files \in (IF nb = "sec" THEN InitialFiles ELSE {{}})
  /\ risk_factors = <<>>
  /\ annotations = <<>>
  /\ label_studio_data = <<>>
  /\ training_data = <<>>
  /\ datasets_data = <<>>
  /\ trained = FALSE
  /\ sec_sentiment_model = "none"
  /\ chunked_text = <<>>
  /\ results = <<>>

EsNext ==
  \/ EsPartitionCall \/ EsPartitionReturn
  \/ EsFilter \/ EsConvert \/ EsCleanStep \/ EsCleanEnd
  \/ EsClient \/ EsIndexCall \/ EsIndexReturn \/ EsUploadEnd
  \/ EsSearchPosCall \/ EsSearchPosReturn
  \/ EsSearchNegCall \/ EsSearchNegReturn
  \/ EsPrintStep \/ EsPrintEnd

MyNext ==
  \/ MyPartitionCall \/ MyPartitionReturn \/ MyPartitionEnd \/ MyShow
  \/ MyConvert \/ MyLoadCall \/ MyLoadReturn \/ MyReadCall \/ MyReadReturn

SecNext ==
  \/ SecMkdir \/ SecFetchCall \/ SecFetchReturn \/ SecFetchEnd
  \/ SecPostCall \/ SecPostReturn \/ SecExtractEnd
  \/ SecElements \/ SecPipelineCall \/ SecPipelineReturn
  \/ SecAnnotateStep \/ SecAnnotateEnd \/ Export \/ SecLabels
  \/ SecModelCall \/ SecModelReturn \/ SecTokenizerCall \/ SecTokenizerReturn
  \/ SecTrainCall \/ SecTrainReturn \/ SecSave \/ SecLoad \/ SecInfer \/ SecChunk
  \/ SecResults

Next == EsNext \/ MyNext \/ SecNext \/ Raise

Spec == Init /\ [][Next]_vars


\* ====================================== executing a load cell once more
\* The user executes the to_sql cell again, right after it has run.
MyRerunLoad ==
  /\ OnlyMy /\ pc = "my_read"
  /\ Running
  /\ reruns < MaxReruns
  /\ reruns' = reruns + 1
  /\ Goto("my_load")
  /\ UNCHANGED <<nb, halted, raised, inflight, attempts, completed>>
  /\ UNCHANGED <<i, elements, myVars>>

\* The user executes the upload cell again, right after it has run.
EsRerunUpload ==
  /\ OnlyEs /\ pc = "es_search_pos"
  /\ Running
  /\ reruns < MaxReruns
  /\ reruns' = reruns + 1
  /\ Goto("es_upload")
  /\ i' = 1
  /\ UNCHANGED <<nb, halted, raised, inflight, attempts, completed>>
  /\ UNCHANGED <<elements, esVars>>

NextRerun == Next \/ MyRerunLoad \/ EsRerunUpload

SpecRerun == Init /\ [][NextRerun]_vars

\* The interpreter keeps executing the statements of the print loop.
FairRerun == SpecRerun /\ WF_vars(EsPrintStep) /\ WF_vars(EsPrintEnd)


\* =============================================================== claims
IndexCalls == SelectSeq(attempts, LAMBDA c : c.fn = "es_client.index")

HasSentiment(d) ==
  /\ {"polarity", "subjectivity", "sentiment"} \subseteq DOMAIN d
  /\ d["sentiment"] \in {"negative", "neutral", "positive"}
  /\ (d["sentiment"] = "negative") <=> (d["polarity"] < 0)
  /\ (d["sentiment"] = "neutral") <=> (d["polarity"] = 0)
  /\ (d["sentiment"] = "positive") <=> (d["polarity"] > 0)

\* C1: every document passed to es_client.index, and so every document of
\* the index, carries polarity, subjectivity and sentiment, and sentiment
\* is negative, neutral or positive exactly as the rounded polarity is
\* below, equal to or above zero.
C1_SentimentComplete ==
  /\ \A k \in DOMAIN IndexCalls : HasSentiment(IndexCalls[k].document)
  /\ \A k \in DOMAIN es_index : HasSentiment(es_index[k])

\* A document with each label is in the index, the neutral one with an
\* unrounded polarity that is not zero.
C1_Witness ==
  /\ \E k \in DOMAIN es_index :
       /\ es_index[k]["sentiment"] = "neutral"
       /\ TextBlobSentiment(es_index[k]["text"]).polarity # 0
  /\ \E k \in DOMAIN es_index : es_index[k]["sentiment"] = "negative"
  /\ \E k \in DOMAIN es_index : es_index[k]["sentiment"] = "positive"

IsTextCategory(element) == element.type \in {"NarrativeText", "UncategorizedText"}

FilterHasRun ==
  nb = "es" /\ (pc \notin {"es_partition", "es_filter"} \/ (pc = "es_filter" /\ halted))

\* C2: once the filter cell has run, text_elements is exactly the
\* NarrativeText and UncategorizedText elements of the partition output,
\* in their original order.
C2_FilterExact ==
  FilterHasRun => text_elements = SelectSeq(elements, IsTextCategory)

\* The filter has dropped an element and kept one of each Text category.
C2_Witness ==
  /\ FilterHasRun
  /\ Len(text_elements) < Len(elements)
  /\ \E k \in DOMAIN text_elements : text_elements[k].type = "NarrativeText"
  /\ \E k \in DOMAIN text_elements : text_elements[k].type = "UncategorizedText"

UploadCompleted ==
  nb = "es" /\ pc \in {"es_search_pos", "es_search_neg", "es_print", "es_done"}

\* C4: from an empty index, when the upload loop has completed the index
\* holds exactly one document per pre-processed Text element, in list
\* order, and exactly these were passed to es_client.index, once each.
C4_OneDocumentPerElement ==
  UploadCompleted =>
    /\ Len(es_index) = Len(text_elements)
    /\ es_index = [k \in DOMAIN clean_text_elements_dict |->
                     dicts[clean_text_elements_dict[k]]]
    /\ [k \in DOMAIN IndexCalls |-> IndexCalls[k].document] = es_index

\* The loop has completed and uploaded five documents.
C4_Witness ==
  /\ UploadCompleted
  /\ Len(es_index) = 5
  /\ Len(IndexCalls) = 5


ReadBackDone == nb = "es" /\ pc \in {"es_print", "es_done"}

\* sorted_elements in descending order of polarity, ties in descending
\* order of subjectivity.
PolarityThenSubjectivity(s) ==
  \A a, b \in DOMAIN s :
    a < b => \/ s[a]["polarity"] > s[b]["polarity"]
             \/ /\ s[a]["polarity"] = s[b]["polarity"]
                /\ s[a]["subjectivity"] >= s[b]["subjectivity"]

\* C3: the read-back holds no neutral element, and sorted_elements is
\* ordered by polarity first and subjectivity second, both descending.
C3_NonNeutralSortedByPolarity ==
  ReadBackDone =>
    /\ \A k \in DOMAIN sorted_elements : sorted_elements[k]["polarity"] # 0
    /\ PolarityThenSubjectivity(sorted_elements)

ExpectedPrints ==
  [k \in 1..Min(5, Len(sorted_elements)) |-> [ix |-> k, hit |-> sorted_elements[k]]]

PrintedSoFar ==
  nb = "es" =>
    /\ IsPrefix(printed, ExpectedPrints)
    /\ pc = "es_done" => printed = ExpectedPrints

\* C5: the print loop prints exactly the first min(5, len(sorted_elements))
\* hits in order, numbered from 1, and once started it terminates.
C5_PrintsTopFive ==
  /\ []PrintedSoFar
  /\ (nb = "es" /\ pc = "es_print") ~> (pc = "es_done")

\* The loop has stopped at the fifth of more than five hits.
C5_Witness ==
  /\ nb = "es" /\ pc = "es_done"
  /\ Len(sorted_elements) > 5
  /\ Len(printed) = 5

\* The to_sql calls that have returned.
LoadsDone ==
  Len(SelectSeq(attempts, LAMBDA c :
        /\ c.fn = "to_sql"
        /\ c \notin inflight
        /\ \A k \in DOMAIN raised : raised[k].call # c.id))

\* C6: after the load has run, once or several times in a row, and whatever
\* the table held before, processed_documents holds exactly the rows of
\* elements_df.
C6_ReplaceIsIdempotent ==
  (nb = "mysql" /\ LoadsDone >= 1) => processed_documents = elements_df

\* The load has run twice and the table holds the rows, once.
C6_Witness ==
  /\ nb = "mysql"
  /\ LoadsDone = 2
  /\ elements_df # <<>>
  /\ processed_documents = elements_df

IsEmailNarrative(row) ==
  row.type = "NarrativeText" /\ StrContains(row.filename, "fake-email.eml")

\* C7: the rows read back are exactly the loaded rows whose type is
\* NarrativeText and whose filename contains fake-email.eml.
C7_ReadBackExact ==
  (nb = "mysql" /\ pc = "my_done") =>
    /\ elements_read_df = SelectSeq(elements_df, IsEmailNarrative)
    /\ Range(elements_read_df) \subseteq Range(elements_df)

\* The query has returned some of the loaded rows and left out narrative
\* text of another document.
C7_Witness ==
  /\ nb = "mysql" /\ pc = "my_done"
  /\ elements_read_df # <<>>
  /\ \E k \in DOMAIN elements_df :
       /\ elements_df[k].type = "NarrativeText"
       /\ ~StrContains(elements_df[k].filename, "fake-email.eml")


StagesSoFar ==
  /\ IsPrefix(log, StageOrder(nb))
  /\ log # <<>>
  /\ IF StageOf(pc) = "end" THEN log = StageOrder(nb)
     ELSE log[Len(log)] = StageOf(pc)

\* C8: the stages of a notebook are entered in the one fixed order, none
\* skipped and none twice, and a stage is entered only when the previous
\* one has completed: no call of it is in flight and nothing has raised.
C8_StagesInOrder ==
  /\ []StagesSoFar
  /\ [][log' # log => (inflight' = {} /\ ~halted')]_vars

\* A run of the SEC notebook has gone through its six stages.
C8_Witness ==
  /\ nb = "sec" /\ pc = "sec_done"
  /\ log = <<"fetch", "extract", "stage", "train", "save", "infer">>

\* C9: once an external call has raised, the run has stopped: no call is
\* issued again, the loop position and the cell stay where they were and
\* no later stage is entered.
C9_NoRetryAfterRaise ==
  /\ [](raised # <<>> => (halted /\ Len(raised) = 1 /\ inflight = {}))
  /\ [][raised # <<>> =>
          (attempts' = attempts /\ pc' = pc /\ i' = i /\ log' = log)]_vars

\* es_client.index has raised on the second element of the upload loop.
C9_Witness ==
  /\ halted
  /\ raised # <<>>
  /\ raised[1].what = "es_client.index"
  /\ Len(es_index) = 1
  /\ Len(IndexCalls) = 2
  /\ pc = "es_upload" /\ i = 2

\* The variables of the notebooks' namespaces.
notebookState ==
  <<i, elements, esVars, myVars, risk_factors, annotations, label_studio_data,
    training_data, datasets_data, trained, sec_sentiment_model, chunked_text,
    results>>

\* C10: at most one external call is in flight and it is the last one
\* issued, so a loop issues the call for the next item only after the
\* previous one has returned; while a call is in flight the notebook's
\* variables do not change.
C10_OneCallAtATime ==
  /\ [](/\ Cardinality(inflight) <= 1
        /\ Len(attempts) - completed = Cardinality(inflight)
        /\ \A c \in inflight : c = attempts[Len(attempts)])
  /\ [][(inflight # {} /\ inflight' = inflight) => UNCHANGED notebookState]_vars

\* The second call of the upload loop is in flight after the first returned.
C10_Witness ==
  /\ \E c \in inflight : c.fn = "es_client.index" /\ c.id = Len(attempts)
  /\ Len(IndexCalls) = 2
  /\ Len(es_index) = 1
  /\ completed = Len(attempts) - 1

PassThroughKeys == {"element_id", "coordinates", "type", "metadata"}

AddedKeys == {"polarity", "subjectivity", "sentiment"}

\* The cleaning loop has processed the dictionary at position k.
CleanedAt(k) ==
  \/ pc \notin {"es_partition", "es_filter", "es_convert", "es_clean"}
  \/ pc = "es_clean" /\ k < i

\* d is what to_dict gave for the element, but for its text and the three
\* added fields.
PassedThrough(d, element, cleaned) ==
  LET original == to_dict(element)
  IN /\ \A key \in PassThroughKeys : d[key] = original[key]
     /\ DOMAIN d \in {DOMAIN original, DOMAIN original \cup AddedKeys}
     /\ d["text"] = IF cleaned THEN clean_extra_whitespace(original["text"])
                    ELSE original["text"]

\* C11: the cleaning and the sentiment steps leave element_id, coordinates,
\* type and metadata of every record as to_dict made them; only text is
\* rewritten, by the whitespace cleaning, and only polarity, subjectivity
\* and sentiment are added; the documents of the index are such records.
C11_PassThrough ==
  nb = "es" =>
    /\ DOMAIN dicts \in {{}, DOMAIN text_elements}
    /\ \A k \in DOMAIN dicts :
         PassedThrough(dicts[k], text_elements[k], CleanedAt(k))
    /\ \A k \in DOMAIN es_index :
         \E j \in DOMAIN text_elements :
           /\ PassedThrough(es_index[k], text_elements[j], TRUE)
           /\ AddedKeys \subseteq DOMAIN es_index[k]

\* The upload has completed, and a record whose text the cleaning has
\* rewritten carries the added fields and is in the index.
C11_Witness ==
  /\ UploadCompleted
  /\ \E k \in DOMAIN dicts :
       /\ dicts[k]["text"] # text_elements[k].text
       /\ AddedKeys \subseteq DOMAIN dicts[k]
       /\ dicts[k]["type"] = text_elements[k].type
       /\ dicts[k] \in Range(es_index)

FetchCompleted == nb = "sec" /\ pc \notin {"sec_mkdir", "sec_fetch"}

\* The files of the directory xbrl-forms.
FormFiles == { f \in files : IsPrefix("./xbrl-forms/", f.name) }

PostCalls == SelectSeq(attempts, LAMBDA c : c.fn = "requests.post")

\* The call has returned: it is not in flight and has not raised.
Returned(c) ==
  c \notin inflight /\ \A k \in DOMAIN raised : raised[k].call # c.id

\* C12: once the fetch loop has completed, xbrl-forms holds exactly one
\* file <ticker>-10k.xbrl for every ticker of the list and nothing else,
\* and every file the extraction loop opens for a ticker holds what the
\* fetch loop wrote for that ticker earlier in the run.
C12_OneFilingPerTicker ==
  /\ FetchCompleted =>
       /\ \A k \in DOMAIN tickers :
            Cardinality({ f \in files :
              f.name = "./xbrl-forms/" \o tickers[k] \o "-10k.xbrl" }) = 1
       /\ Cardinality(FormFiles) = Cardinality(Range(tickers))
  /\ \A k \in DOMAIN attempts :
       attempts[k].fn = "requests.post" =>
         /\ attempts[k].text_files = FormText(attempts[k].ticker)
         /\ \E j \in 1..(k - 1) :
              /\ attempts[j].fn = "get_form_by_ticker"
              /\ attempts[j].ticker = attempts[k].ticker
              /\ Returned(attempts[j])

\* The extraction loop has opened the filing of every ticker.
C12_Witness ==
  /\ FetchCompleted
  /\ Len(PostCalls) = Len(tickers)
  /\ Len(tickers) >= 2
  /\ PostCalls[2].ticker = tickers[2]
  /\ PostCalls[2].text_files = FormText(tickers[2])

AnnotationDone ==
  nb = "sec" /\ pc \notin {"sec_mkdir", "sec_fetch", "sec_extract", "sec_elements",
                           "sec_pipeline", "sec_annotate"}

\* The annotation holds one result with one choice: the title-cased label
\* of the model for the text.
IsDefaultLabel(annotation, text) ==
  /\ Len(annotation) = 1
  /\ Len(annotation[1].result) = 1
  /\ annotation[1].result[1].value.choices = <<TitleCase(PreLabel(text))>>

\* C13: during the annotation loop annotations[k] is the annotation made
\* from elements[k].text for every element processed so far; after the loop
\* annotations is as long as elements, each annotation holds exactly one
\* result with exactly one choice, stage_for_label_studio never rejects
\* its arguments, and every task pairs a text with its own annotation.
C13_AnnotationsAligned ==
  /\ (nb = "sec" /\ pc = "sec_annotate") =>
       /\ Len(annotations) = Min(i, Len(elements) + 1) - 1
       /\ \A k \in DOMAIN annotations :
            IsDefaultLabel(annotations[k], elements[k].text)
  /\ \A k \in DOMAIN raised : raised[k].what # "ValueError"
  /\ AnnotationDone =>
       /\ Len(annotations) = Len(elements)
       /\ \A k \in DOMAIN annotations :
            IsDefaultLabel(annotations[k], elements[k].text)
       /\ Len(label_studio_data) = Len(elements)
       /\ \A k \in DOMAIN label_studio_data :
            /\ label_studio_data[k].data.text = elements[k].text
            /\ label_studio_data[k].annotations = annotations[k]

\* The tasks have been staged for elements of both default labels.
C13_Witness ==
  /\ AnnotationDone
  /\ Len(label_studio_data) >= 2
  /\ \E j, k \in DOMAIN label_studio_data :
       /\ label_studio_data[j].annotations[1].result[1].value.choices = <<"Negative">>
       /\ label_studio_data[k].annotations[1].result[1].value.choices = <<"Positive">>

TrainingReached ==
  nb = "sec" /\ pc \in {"sec_model", "sec_tokenizer", "sec_train", "sec_save",
                        "sec_load", "sec_infer", "sec_chunk", "sec_done"}

\* The labelled data was exported in this run, after the staging step.
ExportedInThisRun == ContentOf(LabeledFile) = "export"

RECURSIVE JoinWith(_, _)
\* sep.join(texts)
JoinWith(texts, sep) ==
  IF texts = <<>> THEN ""
  ELSE IF Len(texts) = 1 THEN texts[1]
  ELSE texts[1] \o sep \o JoinWith(Tail(texts), sep)

ChunkingDone == nb = "sec" /\ pc \in {"sec_results", "sec_done"}

\* C15: the chunks hold the texts of the first min(10, len(elements))
\* elements, in order, and of no later element; results has exactly one
\* entry per chunk of chunked_text, the output of the model for that chunk.
C15_FirstTenChunked ==
  /\ ChunkingDone =>
       /\ JoinWith(chunked_text, " ") =
            JoinWith([k \in 1..Min(10, Len(elements)) |-> elements[k].text], " ")
       /\ \A k \in DOMAIN elements :
            (k <= 10) <=> (\E c \in DOMAIN chunked_text :
                             StrContains(chunked_text[c], elements[k].text))
  /\ (nb = "sec" /\ pc = "sec_done") =>
       /\ Len(results) = Len(chunked_text)
       /\ \A c \in DOMAIN results :
            results[c].label = FineTunedLabel(chunked_text[c])

\* More than ten elements were extracted; the first ten have been packed
\* into several chunks, fewer than ten, each with its result.
C15_Witness ==
  /\ nb = "sec" /\ pc = "sec_done"
  /\ Len(elements) > 10
  /\ Len(chunked_text) > 1
  /\ Len(chunked_text) < 10
  /\ Len(results) = Len(chunked_text)

\* The classes of the model that is fine-tuned: 0 .. num_labels - 1.
ModelClasses ==
  UNION { 0..(attempts[k].num_labels - 1) :
            k \in { j \in DOMAIN attempts :
                      /\ attempts[j].fn = "from_pretrained"
                      /\ attempts[j].what = "model" } }

\* C16: the text column and the label column of datasets_data follow
\* training_data item by item; every label is 0 or 1, a class of the model
\* loaded with num_labels=2; the label is 0 exactly for the sentiment
\* "Negative" and 1 for every other value.
C16_BinaryLabels ==
  TrainingReached =>
    /\ Len(datasets_data.text) = Len(training_data)
    /\ Len(datasets_data.label) = Len(training_data)
    /\ \A k \in DOMAIN training_data :
         /\ datasets_data.text[k] = training_data[k].text
         /\ datasets_data.label[k] \in {0, 1}
         /\ (datasets_data.label[k] = 0) <=> (training_data[k].sentiment = "Negative")
         /\ (datasets_data.label[k] = 1) <=> (training_data[k].sentiment # "Negative")
    /\ \A k \in DOMAIN training_data :
         ModelClasses # {} => datasets_data.label[k] \in ModelClasses

\* The model has been loaded for labelled data in which a sentiment that
\* is neither "Negative" nor "Positive" has the label 1.
C16_Witness ==
  /\ TrainingReached
  /\ ModelClasses = {0, 1}
  /\ Len(training_data) >= 2
  /\ \E k \in DOMAIN training_data :
       /\ training_data[k].sentiment \notin {"Negative", "Positive"}
       /\ datasets_data.label[k] = 1

\* dict.keys(), in insertion order.
Keys(d) == [k \in DOMAIN d |-> d[k].key]

ExtractionDone ==
  nb = "sec" /\ pc \notin {"sec_mkdir", "sec_fetch", "sec_extract"}

\* C17: while the extraction loop is at position i, and so when a request
\* has failed there, risk_factors holds entries for exactly the tickers
\* before position i, in order, and none for the ticker at i or a later
\* one; when the loop has completed it holds exactly one entry per ticker.
C17_EntriesBeforeFailure ==
  /\ (nb = "sec" /\ pc = "sec_extract") =>
       /\ Keys(risk_factors) = SubSeq(tickers, 1, i - 1)
       /\ \A k \in i..Len(tickers) :
            \A e \in DOMAIN risk_factors : risk_factors[e].key # tickers[k]
       /\ halted =>
            /\ i <= Len(tickers)
            /\ PostCalls # <<>> => PostCalls[Len(PostCalls)].ticker = tickers[i]
  /\ ExtractionDone =>
       /\ Len(risk_factors) = Cardinality(Range(tickers))
       /\ Range(Keys(risk_factors)) = Range(tickers)

\* raise_for_status has raised for the second ticker: risk_factors holds
\* the sections of the first and nothing else.
C17_Witness ==
  /\ nb = "sec" /\ pc = "sec_extract" /\ halted
  /\ raised[1].what = "HTTPError"
  /\ i = 2
  /\ Keys(risk_factors) = <<tickers[1]>>
  /\ risk_factors[1].value # <<>>

IndexRaised ==
  /\ nb = "es" /\ halted
  /\ raised # <<>>
  /\ raised[1].what = "es_client.index"

\* The documents of the first n pre-processed elements, in list order.
DocumentsUpTo(n) ==
  [k \in 1..n |-> dicts[clean_text_elements_dict[k]]]

\* C18: when es_client.index has raised for the element at position i of a
\* first upload, the index holds the documents of the positions before i,
\* in order, and none for position i or a later one: fewer documents than
\* there are elements; no step removes a document from the index.
C18_UploadNotAtomic ==
  /\ [](IndexRaised =>
          /\ pc = "es_upload"
          /\ i <= Len(clean_text_elements_dict)
          /\ Len(IndexCalls) = i
          /\ IndexCalls[i].document = dicts[clean_text_elements_dict[i]]
          /\ es_index = DocumentsUpTo(i - 1)
          /\ Len(es_index) < Len(clean_text_elements_dict))
  /\ [][IsPrefix(es_index, es_index')]_vars

\* es_client.index has raised on the third element: two documents are in
\* the index, and the third element carries its sentiment but is not there.
C18_Witness ==
  /\ IndexRaised
  /\ i = 3
  /\ Len(es_index) = 2
  /\ "sentiment" \in DOMAIN dicts[clean_text_elements_dict[3]]
  /\ "sentiment" \notin DOMAIN dicts[clean_text_elements_dict[4]]

RECURSIVE Repeated(_, _)
\* s, n times over.
Repeated(s, n) == IF n = 0 THEN <<>> ELSE s \o Repeated(s, n - 1)

AllDocuments == DocumentsUpTo(Len(clean_text_elements_dict))

\* C19: every execution of the upload loop adds one document per Text
\* element: after n completed executions the index holds n documents for
\* every element, the n copies of the element list one after the other,
\* and an execution under way has added those of the positions before i.
C19_UploadNotIdempotent ==
  /\ (nb = "es" /\ pc = "es_upload") =>
       es_index = Repeated(AllDocuments, reruns) \o DocumentsUpTo(i - 1)
  /\ UploadCompleted =>
       /\ es_index = Repeated(AllDocuments, reruns + 1)
       /\ Len(es_index) = (reruns + 1) * Len(text_elements)
       /\ \A k \in DOMAIN clean_text_elements_dict :
            Cardinality({ j \in DOMAIN es_index :
              /\ (j - 1) % Len(clean_text_elements_dict) = k - 1
              /\ es_index[j] = dicts[clean_text_elements_dict[k]] }) = reruns + 1

\* The loop has run twice; the read-back of the negative hits returns the
\* one negative element twice, with the same element_id.
C19_Witness ==
  /\ ReadBackDone
  /\ reruns = 1
  /\ Len(es_index) = 2 * Len(text_elements)
  /\ Cardinality({ k \in DOMAIN text_elements :
       dicts[k]["sentiment"] = "negative" }) = 1
  /\ \E a, b \in DOMAIN response :
       /\ a # b
       /\ response[a]["sentiment"] = "negative"
       /\ response[b]["sentiment"] = "negative"
       /\ response[a]["element_id"] = response[b]["element_id"]

\* What printing the list shows: the dictionaries it refers to.
Shown(list) == [k \in DOMAIN list |-> dicts[list[k]]]

CleaningDone ==
  nb = "es" /\ pc \notin {"es_partition", "es_filter", "es_convert", "es_clean"}

\* C20: the cleaning loop appends the very dictionary it has cleaned:
\* during the loop clean_text_elements_dict is the part of
\* text_elements_dict before position i, object by object, and its texts
\* are the cleaned ones; after the loop, and after the sentiment loop, the
\* two lists have the same length and the same objects in the same order,
\* so both show the same cleaned text and the same added fields.
C20_CleanedInPlace ==
  /\ (nb = "es" /\ pc = "es_clean") =>
       /\ clean_text_elements_dict = SubSeq(text_elements_dict, 1, i - 1)
       /\ \A k \in DOMAIN clean_text_elements_dict :
            dicts[text_elements_dict[k]]["text"] =
              clean_extra_whitespace(text_elements[k].text)
  /\ CleaningDone =>
       /\ Len(clean_text_elements_dict) = Len(text_elements_dict)
       /\ Len(text_elements_dict) = Len(text_elements)
       /\ \A k \in DOMAIN text_elements_dict :
            clean_text_elements_dict[k] = text_elements_dict[k]
       /\ \A j, k \in DOMAIN text_elements_dict :
            j # k => text_elements_dict[j] # text_elements_dict[k]
       /\ Shown(clean_text_elements_dict) = Shown(text_elements_dict)
       /\ \A k \in DOMAIN text_elements_dict :
            Shown(text_elements_dict)[k]["text"] =
              clean_extra_whitespace(text_elements[k].text)

\* After the sentiment loop the list made by convert_to_dict shows, for an
\* element whose text needed cleaning, the cleaned text and the sentiment.
C20_Witness ==
  /\ UploadCompleted
  /\ \E k \in DOMAIN text_elements_dict :
       /\ clean_text_elements_dict[k] = text_elements_dict[k]
       /\ Shown(text_elements_dict)[k]["text"] # text_elements[k].text
       /\ "sentiment" \in DOMAIN Shown(text_elements_dict)[k]
       /\ Shown(clean_text_elements_dict)[k] = Shown(text_elements_dict)[k]

MyPartitionCalls ==
  SelectSeq(attempts, LAMBDA c : nb = "mysql" /\ c.fn = "partition")

\* The file names of the documents, as the loop passes them to partition.
DocumentPaths ==
  [k \in DOMAIN documents_to_process |->
     OsPathJoin(EXAMPLE_DOCS_FOLDER, documents_to_process[k])]

\* Position in documents_to_process of the document the element is from.
DocumentOf(element) ==
  CHOOSE k \in DOMAIN DocumentPaths : DocumentPaths[k] = element.metadata.filename

MyPartitionDone == nb = "mysql" /\ pc # "my_partition"

\* C21: the loop calls partition for the documents of documents_to_process
\* in list order, each once (the call at position i is the last one when
\* it is in flight or has raised); every return appends the output of that call
\* to elements and changes nothing before it, so elements is the
\* concatenation of the outputs in list order and every element of an
\* earlier document precedes every element of a later one.
C21_ElementsConcatenated ==
  /\ [](nb = "mysql" =>
          /\ [k \in DOMAIN MyPartitionCalls |-> MyPartitionCalls[k].filename] =
               SubSeq(DocumentPaths, 1, Len(MyPartitionCalls))
          /\ \A k \in DOMAIN elements :
               elements[k].metadata.filename \in Range(DocumentPaths)
          /\ \A a, b \in DOMAIN elements :
               a < b => DocumentOf(elements[a]) <= DocumentOf(elements[b])
          /\ pc = "my_partition" =>
               /\ Len(MyPartitionCalls) =
                    IF inflight # {} \/ halted THEN i ELSE i - 1
               /\ \A k \in DOMAIN elements : DocumentOf(elements[k]) < i
          /\ MyPartitionDone => Len(MyPartitionCalls) = Len(documents_to_process))
  /\ [][(nb = "mysql" /\ elements' # elements) =>
          /\ IsPrefix(elements, elements')
          /\ \E c \in inflight :
               /\ c.fn = "partition"
               /\ c.filename = DocumentPaths[i]
               /\ \A k \in (Len(elements) + 1)..Len(elements') :
                    elements'[k].metadata.filename = c.filename]_vars

\* The loop has completed with elements of the first and of the last
\* document, two of the first.
C21_Witness ==
  /\ MyPartitionDone
  /\ Len(MyPartitionCalls) = 3
  /\ Len(elements) >= 3
  /\ DocumentOf(elements[1]) = 1
  /\ DocumentOf(elements[2]) = 1
  /\ DocumentOf(elements[Len(elements)]) = 3

\* trainer.train() has been called and has returned in this run.
TrainReturned ==
  \E k \in DOMAIN attempts :
    attempts[k].fn = "trainer.train" /\ Returned(attempts[k])

\* The cells that run the model: on elements[0].text, on chunked_text.
InferencePcs == {"sec_infer", "sec_chunk", "sec_results", "sec_done"}

\* C22: in the SEC notebook the directory sec-sentiment-model is written by
\* save_model only when trainer.train has returned; the pipeline is loaded
\* from ./sec-sentiment-model only when this run has trained the model and
\* saved it there, and what it loads is the model saved by this run; the
\* inference cells (one element, chunked text) are reached and results is
\* produced only with that model loaded.
C22_LoadAfterTrainAndSave ==
  /\ [](nb = "sec" =>
          /\ trained = TrainReturned
          /\ ContentOf(ModelPath) = "model" => trained
          /\ sec_sentiment_model # "none" =>
               /\ trained
               /\ sec_sentiment_model = "model"
               /\ ContentOf(ModelPath) = "model"
          /\ pc \in InferencePcs => sec_sentiment_model = "model"
          /\ results # <<>> => sec_sentiment_model = "model")
  /\ [][(nb = "sec" /\ ContentOf(ModelPath)' # ContentOf(ModelPath)) =>
          /\ pc = "sec_save" /\ trained
          /\ ContentOf(ModelPath)' = "model"]_vars
  /\ [][(nb = "sec" /\ sec_sentiment_model' # sec_sentiment_model) =>
          /\ pc = "sec_load" /\ trained
          /\ ContentOf(ModelPath) = "model"
          /\ sec_sentiment_model' = "model"]_vars

\* A run in a directory that held an older model has trained, saved, loaded
\* the new model and run it on the chunked text.
C22_Witness ==
  /\ nb = "sec" /\ pc = "sec_done"
  /\ ContentOf(LabeledFile) = "old export"
  /\ trained /\ ContentOf(ModelPath) = "model"
  /\ sec_sentiment_model = "model"
  /\ results # <<>>

====
